---- MODULE Spec2Model ----
(***************************************************************************)
(* In-memory Sliding Window Log rate limiter (RateLimiter class) and the   *)
(* Express routes that use one shared instance of it.                      *)
(*                                                                         *)
(* Time is counted in whole ticks.  Every operation that calls Date.now()  *)
(* takes the value it reads as the parameter `now`; the wall clock is not  *)
(* monotonic, so under Spec a reading may be any tick, while under         *)
(* SpecMono and SpecHttp a reading is never below the previous one.        *)
(* The limit and the window are the constructor's arguments, scaled down   *)
(* from (100, 3600) to (MaxRequests, WindowSize).                          *)
(***************************************************************************)
EXTENDS Integers, Sequences, FiniteSets, TLC

\* ------------------------------------------------------------------ bounds
MaxRequests == 2
WindowSize == 2
MaxTime == 3
MaxCalls == 4
MaxInFlight == 2
MaxHttpCalls == 3
MaxSharedCalls == 3
MaxRetryCalls == 2
MaxLines == 2
MaxLoads == 3

Users == {"user1", "user2"}
Times == 0..MaxTime

\* Request bodies of POST /allow: the userId field with its JavaScript type.
ValidBodies == {[type |-> "string", userId |-> u] : u \in Users}
InvalidBodies ==
    {[type |-> "string", userId |-> ""],
     [type |-> "undefined", userId |-> ""],
     [type |-> "number", userId |-> "42"]}
Bodies == ValidBodies \cup InvalidBodies

\* Math.random().toString(36).substring(7): the suffixes a member may get
Rands == {"a", "b"}

\* request.clientType
ClientTypes == {"EXTERNAL", "INTERNAL", "UNKNOWN"}

\* how one attempt on the store ends: the script's answer arrives in time; the
\* call fails and the script has not run; the 20 ms timeout wins the race
\* while the script still runs at the store
Outcomes == {"ok", "error", "timeout"}

\* allowWithRetry: const maxRetries = 2
maxRetries == 2

VARIABLES
    maxRequestsPerHour,  \* RateLimiter.maxRequestsPerHour
    windowSizeSeconds,   \* RateLimiter.windowSizeSeconds
    userLogs,            \* RateLimiter.userLogs: Map<string, number[]>
    clock,               \* the last value read from Date.now()
    results,             \* per key: the allow calls made since the key was last fresh
    inflight,            \* POST /allow requests received and not yet handled
    response,            \* the last HTTP response sent
    clearedAll,          \* whether resetAll was the last write, and the keys it discarded
    redis,               \* the shared store: per key a sorted set of members with scores
    decision,            \* the last decision made against the shared store
    pending,             \* the call against the shared store that is in progress
    metrics,             \* this.metrics: the value of the counter redis_errors
    config,              \* ConfigLoader.config: RateLimitConfig | null
    file,                \* config.properties: its lines, or that it cannot be read
    loads                \* the calls of loadConfig made so far, as the caller saw them

vars == <<maxRequestsPerHour, windowSizeSeconds, userLogs, clock, results,
          inflight, response, clearedAll, redis, decision, pending, metrics,
          config, file, loads>>

Max(a, b) == IF a >= b THEN a ELSE b

NoLogs == [u \in {} |-> << >>]
NoResponse == [status |-> 0]

\* resetAll has not been called since the last allow
NotCleared == [done |-> FALSE, keys |-> {}]

\* no call against the shared store is in progress
Idle == [pc |-> "idle"]

\* no decision has been made yet
NoDecision == [allowed |-> FALSE, reason |-> "NONE"]

\* ------------------------------------------------------ RateLimiter, pure
\* this.userLogs.get(userId) || []
LogOf(logs, userId) == IF userId \in DOMAIN logs THEN logs[userId] ELSE << >>

\* this.userLogs.set(userId, log)
SetLog(logs, userId, log) ==
    [u \in (DOMAIN logs) \cup {userId} |-> IF u = userId THEN log ELSE logs[u]]

\* mutant: delete under a key the map does not hold
DeleteLog_WrongKey(logs, userId) == logs

\* mutant: delete that clears the whole map
DeleteLog_ClearsAll(logs, userId) == NoLogs

\* this.userLogs.delete(userId)
DeleteLog(logs, userId) == [u \in (DOMAIN logs) \ {userId} |-> logs[u]]

\* while (userLog.length > 0 && userLog[0] <= windowStart) userLog.shift()
RECURSIVE PruneFront(_, _)
PruneFront(log, windowStart) ==
    IF Len(log) > 0 /\ Head(log) <= windowStart
    THEN PruneFront(Tail(log), windowStart)
    ELSE log

\* userLog.filter((timestamp) => timestamp > windowStart)
FilterLog(log, windowStart) == SelectSeq(log, LAMBDA timestamp : timestamp > windowStart)

\* mutant: window start taken one tick too late, so live entries are pruned
AllowPruned_ShortWindow(logs, userId, now) ==
    PruneFront(LogOf(logs, userId), now - (windowSizeSeconds - 1))

\* mutant: the window is subtracted in milliseconds from a time in seconds
AllowPruned_WindowInMillis(logs, userId, now) ==
    PruneFront(LogOf(logs, userId), now - windowSizeSeconds * 1000)

\* mutant: stale entries are filtered out wherever they are in the log
AllowPruned_Filter(logs, userId, now) ==
    FilterLog(LogOf(logs, userId), now - windowSizeSeconds)

\* allow: the log after the prune loop
AllowPruned(logs, userId, now) ==
    PruneFront(LogOf(logs, userId), now - windowSizeSeconds)

\* mutant: <= in place of < in the limit test
AllowResult_OffByOne(logs, userId, now) ==
    Len(AllowPruned(logs, userId, now)) <= maxRequestsPerHour

\* allow: the value returned
AllowResult(logs, userId, now) ==
    Len(AllowPruned(logs, userId, now)) < maxRequestsPerHour

\* mutant: unshift in place of push
AllowLog_Unshift(logs, userId, now) ==
    IF AllowResult(logs, userId, now)
    THEN <<now>> \o AllowPruned(logs, userId, now)
    ELSE AllowPruned(logs, userId, now)

\* mutant: the timestamp is pushed before the limit test, also when rejecting
AllowLog_AlwaysAppend(logs, userId, now) == Append(AllowPruned(logs, userId, now), now)

\* allow: the log left in the map
AllowLog(logs, userId, now) ==
    IF AllowResult(logs, userId, now)
    THEN Append(AllowPruned(logs, userId, now), now)
    ELSE AllowPruned(logs, userId, now)

\* mutant: the write of a call on an existing key is lost, as when two calls
\* read the same log and only one write survives
AllowLogs_LostUpdate(logs, userId, now) ==
    IF userId \in DOMAIN logs
    THEN logs
    ELSE SetLog(logs, userId, AllowLog(logs, userId, now))

\* mutant: clear that discards one key only
ClearLogs_OneKey(logs) ==
    IF DOMAIN logs = {} THEN logs
    ELSE [u \in DOMAIN logs \ {CHOOSE k \in DOMAIN logs : TRUE} |-> logs[u]]

\* this.userLogs.clear()
ClearLogs(logs) == NoLogs

\* allow: the map after the call
AllowLogs(logs, userId, now) == SetLog(logs, userId, AllowLog(logs, userId, now))

\* getRequestCount, on a given map
RequestCountIn(logs, userId, now) ==
    Len(FilterLog(LogOf(logs, userId), now - windowSizeSeconds))

Min(a, b) == IF a <= b THEN a ELSE b

\* mutant: Math.min in place of Math.max
RemainingRequestsIn_Min(logs, userId, now) ==
    Min(0, maxRequestsPerHour - RequestCountIn(logs, userId, now))

\* getRemainingRequests, on a given map
RemainingRequestsIn(logs, userId, now) ==
    Max(0, maxRequestsPerHour - RequestCountIn(logs, userId, now))

getRequestCount(userId, now) == RequestCountIn(userLogs, userId, now)

getRemainingRequests(userId, now) == RemainingRequestsIn(userLogs, userId, now)

\* getStats reads the clock twice: once in getRequestCount, once in getRemainingRequests
StatsIn(logs, userId, now1, now2) ==
    [currentCount |-> RequestCountIn(logs, userId, now1),
     remaining |-> RemainingRequestsIn(logs, userId, now2),
     limit |-> maxRequestsPerHour,
     windowSizeSeconds |-> windowSizeSeconds]

\* ------------------------------------------------------------ shared store
\* the sorted set stored under a key; Redis holds no empty sorted set, so a key
\* that is absent reads as the empty set
ZSetOf(store, key) == IF key \in DOMAIN store THEN store[key] ELSE {}

\* ZREMRANGEBYSCORE key min max
ZRemRangeByScore(zset, min, max) == {m \in zset : ~(min <= m.score /\ m.score <= max)}

\* ZCARD key
ZCard(zset) == Cardinality(zset)

\* ZADD key score member: a member already in the set only gets the new score
ZAdd(zset, score, member) ==
    {m \in zset : m.member # member} \cup {[member |-> member, score |-> score]}

\* const member = `${nowMs}:${Math.random().toString(36).substring(7)}`
Member(nowMs, rand) == <<nowMs, rand>>

\* SLIDING_WINDOW_LUA, first step: ZREMRANGEBYSCORE KEYS[1] 0 ARGV[1]
LuaPruned(store, key, windowStart) == ZRemRangeByScore(ZSetOf(store, key), 0, windowStart)

\* SLIDING_WINDOW_LUA, what the script returns: 0 (blocked) when ZCARD >= limit,
\* else 1 (allowed)
LuaResult(store, key, windowStart, limit) ==
    IF ZCard(LuaPruned(store, key, windowStart)) >= limit THEN 0 ELSE 1

\* SLIDING_WINDOW_LUA, the store the script leaves: pruned, and with the new
\* member when allowed.  The key's time to live, two windows, is longer than
\* the times the model covers, so no key expires.
LuaStore(store, key, windowStart, now, limit, member) ==
    SetLog(store, key,
           IF LuaResult(store, key, windowStart, limit) = 0
           THEN LuaPruned(store, key, windowStart)
           ELSE ZAdd(LuaPruned(store, key, windowStart), now, member))

\* RedisSlidingWindowStore.tryAdd: return result === 1
TryAddResult(store, key, nowMs, limit, windowMs) ==
    LuaResult(store, key, nowMs - windowMs, limit) = 1

\* RedisSlidingWindowStore.tryAdd: the store after the script has run
TryAddStore(store, key, nowMs, limit, windowMs, rand) ==
    LuaStore(store, key, nowMs - windowMs, nowMs, limit, Member(nowMs, rand))

\* ------------------------------------------------------- multi-scope rules
\* this.config.resolveRule(request).scopes: the scopes of the rule in the order
\* the loop evaluates them, each with its own limit and window
Scopes ==
    << [name |-> "USER_MODEL", limit |-> maxRequestsPerHour,
        windowMs |-> windowSizeSeconds],
       [name |-> "TENANT_MODEL_TIER", limit |-> maxRequestsPerHour,
        windowMs |-> windowSizeSeconds - 1],
       [name |-> "GLOBAL_MODEL", limit |-> maxRequestsPerHour,
        windowMs |-> windowSizeSeconds] >>

\* scope.composeKey(request): one key per user in the user scope, one key for
\* all the requests in the other scopes
ComposeKey(scope, userId) ==
    IF scope.name = "USER_MODEL" THEN <<scope.name, userId>> ELSE <<scope.name>>

\* this.decisionBlocked(scope, rule, now); `added` lists the scopes in which
\* the request left an entry
DecisionBlocked(scope, added) ==
    [allowed |-> FALSE, reason |-> "HIT_LIMIT", scopeHit |-> scope.name, added |-> added]

\* this.decisionAllowed(rule, now)
DecisionAllowed(added) ==
    [allowed |-> TRUE, reason |-> "ALLOWED", scopeHit |-> "NONE", added |-> added]

\* ------------------------------------------------------- failure handling
\* handleFailure that lets external clients through when the store is down
handleFailure_FailOpen(clientType, local) ==
    IF clientType = "INTERNAL"
    THEN [allowed |-> local,
          reason |-> IF local THEN "FALLBACK_FAIL_OPEN" ELSE "LOCAL_FALLBACK_LIMIT"]
    ELSE [allowed |-> TRUE, reason |-> "FALLBACK_FAIL_OPEN"]

\* RateLimiterService.handleFailure(request, error); `local` is the answer of
\* this.localFallbackLimiter.allow(request)
handleFailure(clientType, local) ==
    IF clientType = "EXTERNAL"
    THEN [allowed |-> FALSE, reason |-> "RATE_LIMITER_UNHEALTHY"]
    ELSE IF clientType = "INTERNAL"
    THEN [allowed |-> local,
          reason |-> IF local THEN "FALLBACK_FAIL_OPEN" ELSE "LOCAL_FALLBACK_LIMIT"]
    ELSE [allowed |-> FALSE, reason |-> "ERROR"]

\* ----------------------------------------------------------- configuration
\* ConfigLoader.config = null
NoConfig == [loaded |-> FALSE]

\* fs.readFileSync(propertiesPath, 'utf-8') throws
Unreadable == [readable |-> FALSE]

\* the defaults of the catch block
DefaultRequestsPerHour == 100
DefaultWindowSeconds == 3600

\* the property names that loadConfig looks up
RequestsKey == "rate.limit.requests.per.hour"
WindowKey == "rate.limit.window.seconds"

\* one line of the file, trimmed: whether it starts with '#', what stands
\* before its first '=' (trimmed; the whole line when it has no '='), whether
\* it has a '=', and the characters that follow it, trimmed
Line(comment, key, hasEq, value) ==
    [comment |-> comment, key |-> key, hasEq |-> hasEq, value |-> value]

Lines ==
    { Line(FALSE, RequestsKey, TRUE, <<"2">>),
      Line(FALSE, RequestsKey, TRUE, << >>),
      Line(FALSE, RequestsKey, TRUE, <<"x">>),
      Line(FALSE, WindowKey, TRUE, <<"3", "x">>),
      Line(FALSE, WindowKey, TRUE, <<"-", "1">>),
      Line(TRUE, RequestsKey, TRUE, <<"2">>),
      Line(FALSE, "", TRUE, <<"2">>) }

\* a readable config.properties with the given lines
File(ls) == [readable |-> TRUE, lines |-> ls]

\* what one change makes of the file f: unreadable, or readable and empty, or
\* f with one more line at its end, or f without its last line
FileEdits(f) ==
    {Unreadable, File(<< >>)}
      \cup (IF f.readable /\ Len(f.lines) < MaxLines
            THEN {File(Append(f.lines, l)) : l \in Lines} ELSE {})
      \cup (IF f.readable /\ f.lines # << >>
            THEN {File(SubSeq(f.lines, 1, Len(f.lines) - 1))} ELSE {})

\* the forEach over the lines: a line that is not empty, does not start with
\* '#' and has its first '=' after position 0 sets properties[key] = value
RECURSIVE Properties(_)
Properties(ls) ==
    IF ls = << >> THEN [k \in {} |-> << >>]
    ELSE LET before == Properties(SubSeq(ls, 1, Len(ls) - 1))
             l == ls[Len(ls)]
             empty == l.key = "" /\ ~l.hasEq
         IN IF ~empty /\ ~l.comment /\ l.hasEq /\ l.key # ""
            THEN [k \in DOMAIN before \cup {l.key} |->
                    IF k = l.key THEN l.value ELSE before[k]]
            ELSE before

\* a number, and the value NaN
Num(n) == [nan |-> FALSE, n |-> n]
NaN == [nan |-> TRUE, n |-> 0]

Digits == [d \in {"0", "1", "2", "3", "4", "5", "6", "7", "8", "9"} |->
             CASE d = "0" -> 0 [] d = "1" -> 1 [] d = "2" -> 2 [] d = "3" -> 3
               [] d = "4" -> 4 [] d = "5" -> 5 [] d = "6" -> 6 [] d = "7" -> 7
               [] d = "8" -> 8 [] d = "9" -> 9]

\* the longest prefix of chars made of digits
RECURSIVE LeadingDigits(_)
LeadingDigits(chars) ==
    IF chars # << >> /\ Head(chars) \in DOMAIN Digits
    THEN <<Head(chars)>> \o LeadingDigits(Tail(chars))
    ELSE << >>

\* the value in base ten of a sequence of digits
RECURSIVE DigitsValue(_)
DigitsValue(ds) ==
    IF ds = << >> THEN 0
    ELSE 10 * DigitsValue(SubSeq(ds, 1, Len(ds) - 1)) + Digits[ds[Len(ds)]]

\* parseInt(string, 10): an optional sign, then the leading digits; NaN when
\* there is no digit
parseInt(chars) ==
    LET signed == chars # << >> /\ Head(chars) \in {"-", "+"}
        rest == IF signed THEN Tail(chars) ELSE chars
        ds == LeadingDigits(rest)
    IN IF ds = << >> THEN NaN
       ELSE IF signed /\ Head(chars) = "-" THEN Num(0 - DigitsValue(ds))
       ELSE Num(DigitsValue(ds))

\* properties[key] || fallback: the fallback stands in for a key that is
\* not there and for an empty value
OrDefault(properties, key, fallback) ==
    IF key \in DOMAIN properties /\ properties[key] # << >>
    THEN properties[key]
    ELSE fallback

\* mutant: the catch block lets the error out instead of answering
ReadConfig_NoCatch(f) ==
    IF ~f.readable
    THEN [loaded |-> FALSE]
    ELSE LET properties == Properties(f.lines)
         IN [loaded |-> TRUE,
             requestsPerHour |->
                 parseInt(OrDefault(properties, RequestsKey, <<"1", "0", "0">>)),
             windowSeconds |->
                 parseInt(OrDefault(properties, WindowKey, <<"3", "6", "0", "0">>))]

\* loadConfig past the cache check: the try block and the catch block
ReadConfig(f) ==
    IF ~f.readable
    THEN [loaded |-> TRUE,
          requestsPerHour |-> Num(DefaultRequestsPerHour),
          windowSeconds |-> Num(DefaultWindowSeconds)]
    ELSE LET properties == Properties(f.lines)
         IN [loaded |-> TRUE,
             requestsPerHour |->
                 parseInt(OrDefault(properties, RequestsKey, <<"1", "0", "0">>)),
             windowSeconds |->
                 parseInt(OrDefault(properties, WindowKey, <<"3", "6", "0", "0">>))]

\* mutant: loadConfig without the cache check
LoadConfigResult_NoCache(cached, f) == ReadConfig(f)

\* loadConfig: what it returns, which is also what it leaves in
\* ConfigLoader.config
LoadConfigResult(cached, f) == IF cached.loaded THEN cached ELSE ReadConfig(f)

\* ------------------------------------------------------------- bookkeeping
RECURSIVE TotalCalls(_, _)
TotalCalls(res, S) ==
    IF S = {} THEN 0
    ELSE LET u == CHOOSE x \in S : TRUE
         IN Len(res[u]) + TotalCalls(res, S \ {u})

InFlightCount == TotalCalls([b \in Bodies |-> [i \in 1..inflight[b] |-> b]], Bodies)

\* one allow call as the caller saw it; pruned: the number of turns of the
\* call's prune loop; raced: the call was made with exactly
\* one slot left while another request for the same key was in flight
CallRecord(userId, now, http, waiting) ==
    [now |-> now,
     allowed |-> AllowResult(userLogs, userId, now),
     remaining |-> getRemainingRequests(userId, now),
     http |-> http,
     pruned |-> Len(LogOf(userLogs, userId)) - Len(AllowPruned(userLogs, userId, now)),
     raced |-> (waiting >= 1 /\ getRemainingRequests(userId, now) = 1)]

\* ------------------------------------------------------------------ Init
Init ==
    /\ maxRequestsPerHour = MaxRequests
    /\ windowSizeSeconds = WindowSize
    /\ userLogs = NoLogs
    /\ clock = 0
    /\ results = [u \in Users |-> << >>]
    /\ inflight = [b \in Bodies |-> 0]
    /\ response = NoResponse
    /\ clearedAll = NotCleared
    /\ redis = NoLogs
    /\ decision = NoDecision
    /\ pending = Idle
    /\ metrics = 0
    /\ config = NoConfig
    /\ file = Unreadable
    /\ loads = << >>

\* the limits, zero and below, that the constructor takes as it takes any
\* other number
NonPositiveLimits == (0 - MaxRequests)..0

\* new RateLimiter(maxRequestsPerHour, windowSizeSeconds) with a limit that is
\* not positive
InitNonPositive ==
    /\ maxRequestsPerHour \in NonPositiveLimits
    /\ windowSizeSeconds = WindowSize
    /\ userLogs = NoLogs
    /\ clock = 0
    /\ results = [u \in Users |-> << >>]
    /\ inflight = [b \in Bodies |-> 0]
    /\ response = NoResponse
    /\ clearedAll = NotCleared
    /\ redis = NoLogs
    /\ decision = NoDecision
    /\ pending = Idle
    /\ metrics = 0
    /\ config = NoConfig
    /\ file = Unreadable
    /\ loads = << >>

\* --------------------------------------------------------------- actions
Allow(userId, now) ==
    /\ TotalCalls(results, Users) < MaxCalls
    /\ userLogs' = AllowLogs(userLogs, userId, now)
    /\ results' = [results EXCEPT ![userId] = Append(@, CallRecord(userId, now, FALSE, 0))]
    /\ clock' = now
    /\ clearedAll' = NotCleared
    /\ UNCHANGED <<maxRequestsPerHour, windowSizeSeconds, redis, decision, pending,
                   inflight, response, metrics, config, file, loads>>

GetRequestCount(userId, now) ==
    /\ clock' = now
    /\ UNCHANGED <<maxRequestsPerHour, windowSizeSeconds, clearedAll, redis, decision,
                   pending, userLogs, results, inflight, response, metrics, config,
                   file, loads>>

\* variant: the read is answered by recording a request, as allow does
GetRemainingRequests_Records(userId, now) ==
    /\ userLogs' = AllowLogs(userLogs, userId, now)
    /\ clock' = now
    /\ UNCHANGED <<maxRequestsPerHour, windowSizeSeconds, clearedAll, redis, decision,
                   pending, results, inflight, response, metrics, config, file, loads>>

GetRemainingRequests(userId, now) ==
    /\ clock' = now
    /\ UNCHANGED <<maxRequestsPerHour, windowSizeSeconds, clearedAll, redis, decision,
                   pending, userLogs, results, inflight, response, metrics, config,
                   file, loads>>

\* getStats: two clock readings, no write
GetStats(userId, now1, now2) ==
    /\ clock' = now2
    /\ UNCHANGED <<maxRequestsPerHour, windowSizeSeconds, clearedAll, redis, decision,
                   pending, userLogs, results, inflight, response, metrics, config,
                   file, loads>>

\* one admission request (key, now) given both to the in-process limiter and
\* to the shared store, with the same limit and window
AllowOnBoth(key, now, rand) ==
    /\ TotalCalls(results, Users) < MaxSharedCalls
    /\ userLogs' = AllowLogs(userLogs, key, now)
    /\ redis' = TryAddStore(redis, key, now, maxRequestsPerHour, windowSizeSeconds, rand)
    /\ decision' = [allowed |-> TryAddResult(redis, key, now, maxRequestsPerHour,
                                             windowSizeSeconds),
                    reason |-> "NONE",
                    local |-> AllowResult(userLogs, key, now)]
    /\ results' = [results EXCEPT ![key] = Append(@, CallRecord(key, now, FALSE, 0))]
    /\ clock' = now
    /\ clearedAll' = NotCleared
    /\ UNCHANGED <<maxRequestsPerHour, windowSizeSeconds, inflight, response, pending,
                   metrics, config, file, loads>>

\* RateLimiter.allow(request) over rule.scopes: const now = Date.now();
\* `added` and `before` record, for the properties, the scopes in which the
\* request has left an entry and the store as the request found it
ScopedAllowStart(userId, now) ==
    /\ pending = Idle
    /\ TotalCalls(results, Users) < MaxSharedCalls
    /\ pending' = [pc |-> "scopes", userId |-> userId, now |-> now, idx |-> 1,
                   added |-> {}, before |-> redis]
    /\ clock' = now
    /\ UNCHANGED <<maxRequestsPerHour, windowSizeSeconds, userLogs, results, inflight,
                   response, clearedAll, redis, decision, metrics, config, file,
                   loads>>

\* RateLimiter.allow(request) over rule.scopes: one turn of the loop, which is
\* one await this.store.tryAdd(...) and what follows it without another await
ScopedAllowTryAdd(rand) ==
    /\ pending.pc = "scopes"
    /\ LET scope == Scopes[pending.idx]
           key == ComposeKey(scope, pending.userId)
           allowed == TryAddResult(redis, key, pending.now, scope.limit, scope.windowMs)
           store == TryAddStore(redis, key, pending.now, scope.limit, scope.windowMs, rand)
           grew == ZCard(ZSetOf(store, key))
                     > ZCard(LuaPruned(redis, key, pending.now - scope.windowMs))
           added == IF grew THEN pending.added \cup {scope.name} ELSE pending.added
           done == ~allowed \/ pending.idx = Len(Scopes)
       IN /\ redis' = store
          /\ pending' = IF done THEN Idle
                        ELSE [pending EXCEPT !.idx = @ + 1, !.added = added]
          /\ decision' = IF ~allowed THEN DecisionBlocked(scope, added)
                         ELSE IF done THEN DecisionAllowed(added)
                         ELSE decision
          /\ results' = IF done
                        THEN [results EXCEPT ![pending.userId] =
                                Append(@, [now |-> pending.now, allowed |-> allowed])]
                        ELSE results
    /\ UNCHANGED <<maxRequestsPerHour, windowSizeSeconds, userLogs, clock, inflight,
                   response, clearedAll, metrics, config, file, loads>>

\* RateLimiterService.allowWithRetry(request): entry, before the first attempt
AllowWithRetryStart(userId, clientType, now) ==
    /\ pending = Idle
    /\ TotalCalls(results, Users) < MaxRetryCalls
    /\ pending' = [pc |-> "retry", userId |-> userId, clientType |-> clientType,
                   now |-> now, attempt |-> 0]
    /\ clock' = now
    /\ UNCHANGED <<maxRequestsPerHour, windowSizeSeconds, userLogs, results, inflight,
                   response, clearedAll, redis, decision, metrics, config, file,
                   loads>>

\* RateLimiterService.allowWithRetry(request): one turn of the loop, which is
\* one attempt on the store and the catch block when the attempt fails
AllowWithRetryAttempt(outcome, rand, local) ==
    /\ pending.pc = "retry"
    /\ LET key == pending.userId
           allowed == TryAddResult(redis, key, pending.now, maxRequestsPerHour,
                                   windowSizeSeconds)
           ran == TryAddStore(redis, key, pending.now, maxRequestsPerHour,
                              windowSizeSeconds, rand)
           failed == handleFailure(pending.clientType, local)
           last == pending.attempt = maxRetries
           done == outcome = "ok" \/ last
       IN /\ redis' = IF outcome = "error" THEN redis ELSE ran
          /\ pending' = IF done THEN Idle ELSE [pending EXCEPT !.attempt = @ + 1]
          /\ decision' =
                IF outcome = "ok"
                THEN [allowed |-> allowed, reason |-> "NONE", via |-> "store",
                      clientType |-> pending.clientType,
                      attempts |-> pending.attempt + 1]
                ELSE IF last
                THEN [allowed |-> failed.allowed, reason |-> failed.reason,
                      via |-> "handleFailure", clientType |-> pending.clientType,
                      attempts |-> pending.attempt + 1]
                ELSE decision
          /\ metrics' = IF outcome # "ok" /\ last THEN metrics + 1 ELSE metrics
          /\ results' = IF done
                        THEN [results EXCEPT ![pending.userId] =
                                Append(@, [now |-> pending.now,
                                           allowed |-> decision'.allowed])]
                        ELSE results
    /\ UNCHANGED <<maxRequestsPerHour, windowSizeSeconds, userLogs, clock, inflight,
                   response, clearedAll, config, file, loads>>

\* ConfigLoader.loadConfig(), also as ConfigLoader.getRateLimitConfig() calls it
LoadConfig(via) ==
    /\ Len(loads) < MaxLoads
    /\ config' = LoadConfigResult(config, file)
    /\ loads' = Append(loads, [returned |-> LoadConfigResult(config, file),
                               read |-> ~config.loaded,
                               file |-> IF config.loaded THEN Unreadable ELSE file])
    /\ UNCHANGED <<maxRequestsPerHour, windowSizeSeconds, userLogs, clock, results,
                   inflight, response, clearedAll, redis, decision, pending, metrics,
                   file>>

\* config.properties is changed by someone else
FileChanges(f) ==
    /\ f # file
    /\ file' = f
    /\ UNCHANGED <<maxRequestsPerHour, windowSizeSeconds, userLogs, clock, results,
                   inflight, response, clearedAll, redis, decision, pending, metrics,
                   config, loads>>

ResetUser(userId) ==
    /\ userLogs' = DeleteLog(userLogs, userId)
    /\ results' = [results EXCEPT ![userId] = << >>]
    /\ UNCHANGED <<maxRequestsPerHour, windowSizeSeconds, clearedAll, redis, decision,
                   pending, clock, inflight, response, metrics, config, file, loads>>

ResetAll ==
    /\ userLogs' = ClearLogs(userLogs)
    /\ results' = [u \in Users |-> << >>]
    /\ clearedAll' = [done |-> TRUE, keys |-> DOMAIN userLogs]
    /\ UNCHANGED <<maxRequestsPerHour, windowSizeSeconds, redis, decision, pending,
                   clock, inflight, response, metrics, config, file, loads>>

\* a POST /rate-limit/allow request reaches the server
PostAllowReceive(body) ==
    /\ InFlightCount < MaxInFlight
    /\ inflight' = [inflight EXCEPT ![body] = @ + 1]
    /\ UNCHANGED <<maxRequestsPerHour, windowSizeSeconds, clearedAll, redis, decision,
                   pending, userLogs, clock, results, response, metrics, config, file,
                   loads>>

\* variant: only !userId is tested, the type of userId is not
InvalidUserId_FalsyOnly(body) == body.userId = ""

\* !userId || typeof userId !== 'string'
InvalidUserId(body) == body.userId = "" \/ body.type # "string"

\* res.status(400).json(...): the validation error
ValidationResponse == [status |-> 400]

\* the catch block: res.status(500).json(...)
ErrorResponse == [status |-> 500]

\* variant: the rejection is sent with the status of the admission
AllowResponse_Always200(userId, allowed, stats) ==
    [status |-> 200,
     allowed |-> allowed,
     userId |-> userId,
     remaining |-> stats.remaining,
     currentCount |-> stats.currentCount,
     limit |-> stats.limit]

\* res.status(allowed ? 200 : 429).json(...)
AllowResponse(userId, allowed, stats) ==
    [status |-> IF allowed THEN 200 ELSE 429,
     allowed |-> allowed,
     userId |-> userId,
     remaining |-> stats.remaining,
     currentCount |-> stats.currentCount,
     limit |-> stats.limit]

\* where an exception is raised inside the try block of a handler: nowhere,
\* before the rate limiter is called, or after it has returned
Faults == {"none", "before", "after"}

\* router.post('/allow', ...): the handler is synchronous, so it runs to
\* completion before any other handler of the process starts
PostAllowHandler(body, now, now1, now2, fault) ==
    /\ inflight[body] > 0
    /\ inflight' = [inflight EXCEPT ![body] = @ - 1]
    /\ IF fault = "before"
       THEN /\ response' = ErrorResponse
            /\ UNCHANGED <<userLogs, clock, results, clearedAll>>
       ELSE IF InvalidUserId(body)
       THEN /\ response' = IF fault = "none" THEN ValidationResponse ELSE ErrorResponse
            /\ UNCHANGED <<userLogs, clock, results, clearedAll>>
       ELSE LET userId == body.userId
                allowed == AllowResult(userLogs, userId, now)
                logs == AllowLogs(userLogs, userId, now)
                stats == StatsIn(logs, userId, now1, now2)
            IN /\ TotalCalls(results, Users) < MaxHttpCalls
               /\ userLogs' = logs
               /\ results' = [results EXCEPT ![userId] =
                                Append(@, CallRecord(userId, now, TRUE, inflight'[body]))]
               /\ clock' = now2
               /\ clearedAll' = NotCleared
               /\ response' = IF fault = "none"
                              THEN AllowResponse(userId, allowed, stats)
                              ELSE ErrorResponse
    /\ UNCHANGED <<maxRequestsPerHour, windowSizeSeconds, redis, decision, pending,
                   metrics, config, file, loads>>

\* router.get('/stats/:userId', ...)
GetStatsHandler(userId, now1, now2) ==
    /\ IF userId = ""
       THEN response' = ValidationResponse /\ UNCHANGED clock
       ELSE /\ response' = [status |-> 200,
                            userId |-> userId,
                            stats |-> StatsIn(userLogs, userId, now1, now2)]
            /\ clock' = now2
    /\ UNCHANGED <<maxRequestsPerHour, windowSizeSeconds, clearedAll, redis, decision,
                   pending, userLogs, results, inflight, metrics, config, file, loads>>

\* router.delete('/reset/:userId', ...)
DeleteResetHandler(userId) ==
    /\ IF userId = ""
       THEN response' = ValidationResponse /\ UNCHANGED <<userLogs, results>>
       ELSE /\ userLogs' = DeleteLog(userLogs, userId)
            /\ results' = [results EXCEPT ![userId] = << >>]
            /\ response' = [status |-> 200, userId |-> userId]
    /\ UNCHANGED <<maxRequestsPerHour, windowSizeSeconds, clearedAll, redis, decision,
                   pending, clock, inflight, metrics, config, file, loads>>

\* ---------------------------------------------------------- specifications
\* the clock values a reading may return after the reading t
LaterTime(t) == t..MaxTime

\* calls on the RateLimiter object, as the tests and the example make them;
\* the wall clock: any reading may follow any other
Next ==
    \/ \E userId \in Users, now \in Times : Allow(userId, now)
    \/ \E userId \in Users, now \in Times : GetRequestCount(userId, now)
    \/ \E userId \in Users, now \in Times : GetRemainingRequests(userId, now)
    \/ \E userId \in Users : ResetUser(userId)
    \/ ResetAll

Spec == Init /\ [][Next]_vars

\* the same calls on a RateLimiter constructed with a limit that is not positive
SpecNonPositive == InitNonPositive /\ [][Next]_vars

\* the same calls under a clock that never goes back
NextMono ==
    \/ \E userId \in Users, now \in LaterTime(clock) : Allow(userId, now)
    \/ \E userId \in Users, now \in LaterTime(clock) : GetRequestCount(userId, now)
    \/ \E userId \in Users, now \in LaterTime(clock) : GetRemainingRequests(userId, now)
    \/ \E userId \in Users : ResetUser(userId)
    \/ ResetAll

SpecMono == Init /\ [][NextMono]_vars

\* a call that reads a later time than the last one read
TimePasses ==
    \E userId \in Users, now \in LaterTime(clock) :
        now > clock /\ GetRequestCount(userId, now)

\* the same calls under a clock that never goes back, where time does not stop
\* being read while it can advance; no caller is bound to call allow or a
\* reset, and the RateLimiter has no step of its own
SpecMonoFair == Init /\ [][NextMono]_vars /\ WF_vars(TimePasses)

\* requests to the router, which owns the only RateLimiter of the process,
\* under a clock that never goes back; a handler that fails before the rate
\* limiter is called, or that rejects the body, reads no clock, and the answer
\* of one that fails after it does not depend on the readings of getStats
NextHttp ==
    \/ \E body \in Bodies : PostAllowReceive(body)
    \/ \E body \in Bodies : PostAllowHandler(body, clock, clock, clock, "before")
    \/ \E body \in InvalidBodies, fault \in Faults \ {"before"} :
          PostAllowHandler(body, clock, clock, clock, fault)
    \/ \E body \in ValidBodies, now \in LaterTime(clock) :
          \E now1 \in LaterTime(now) : \E now2 \in LaterTime(now1) :
              PostAllowHandler(body, now, now1, now2, "none")
    \/ \E body \in ValidBodies, now \in LaterTime(clock) :
          \E now2 \in LaterTime(now) : PostAllowHandler(body, now, now, now2, "after")
    \/ \E userId \in Users, now1 \in LaterTime(clock) :
          \E now2 \in LaterTime(now1) : GetStatsHandler(userId, now1, now2)
    \/ \E userId \in Users : DeleteResetHandler(userId)

SpecHttp == Init /\ [][NextHttp]_vars

\* the library calls together with the GET route that wraps getStats, under
\* a clock that never goes back
NextReads ==
    \/ \E userId \in Users, now \in LaterTime(clock) : Allow(userId, now)
    \/ \E userId \in Users, now \in LaterTime(clock) : GetRequestCount(userId, now)
    \/ \E userId \in Users, now \in LaterTime(clock) : GetRemainingRequests(userId, now)
    \/ \E userId \in Users, now1 \in LaterTime(clock) :
          \E now2 \in LaterTime(now1) : GetStats(userId, now1, now2)
    \/ \E userId \in Users, now1 \in LaterTime(clock) :
          \E now2 \in LaterTime(now1) : GetStatsHandler(userId, now1, now2)
    \/ \E userId \in Users : ResetUser(userId)

SpecReads == Init /\ [][NextReads]_vars

\* the same admission requests given to the in-process limiter and to the
\* shared store; the clocks of the callers are not synchronised, so a request
\* may carry any time
NextShared == \E key \in Users, now \in Times, rand \in Rands : AllowOnBoth(key, now, rand)

SpecShared == Init /\ [][NextShared]_vars

\* requests to the multi-scope limiter of one process, one at a time, on a
\* clock that does not go back
NextScopes ==
    \/ \E userId \in Users, now \in LaterTime(clock) : ScopedAllowStart(userId, now)
    \/ \E rand \in Rands : ScopedAllowTryAdd(rand)

SpecScopes == Init /\ [][NextScopes]_vars

\* requests to the service that retries on the shared store, one at a time,
\* on a clock that does not go back
NextRetry ==
    \/ \E userId \in Users, clientType \in ClientTypes, now \in LaterTime(clock) :
          AllowWithRetryStart(userId, clientType, now)
    \/ \E outcome \in Outcomes, rand \in Rands, local \in BOOLEAN :
          AllowWithRetryAttempt(outcome, rand, local)

SpecRetry == Init /\ [][NextRetry]_vars

\* calls of the ConfigLoader while config.properties changes under it
NextConfig ==
    \/ \E via \in {"loadConfig", "getRateLimitConfig"} : LoadConfig(via)
    \/ \E f \in FileEdits(file) : FileChanges(f)

SpecConfig == Init /\ [][NextConfig]_vars

\* ------------------------------------------------------------------ claims
NonDecreasing(r) == \A i \in 1..(Len(r) - 1) : r[i].now <= r[i + 1].now

WithinOneWindow(r) == Len(r) = 0 \/ r[Len(r)].now - r[1].now < windowSizeSeconds

AdmittedIn(r) == {i \in DOMAIN r : r[i].allowed}

RejectedIn(r) == {i \in DOMAIN r : ~r[i].allowed}

\* the entries a front-to-back prune keeps: everything from the first live one on
FirstLive(log, windowStart) ==
    IF \E k \in DOMAIN log : log[k] > windowStart
    THEN CHOOSE k \in DOMAIN log :
            /\ log[k] > windowStart
            /\ \A j \in 1..(k - 1) : log[j] <= windowStart
    ELSE Len(log) + 1

KeptByPrune(log, windowStart) == SubSeq(log, FirstLive(log, windowStart), Len(log))

IsSuffix(s, t) == Len(s) <= Len(t) /\ s = SubSeq(t, Len(t) - Len(s) + 1, Len(t))

\* C1: under a clock that never goes back, and counting from the key's last
\* reset, every half-open interval (s, s + W] holds the timestamps of at most
\* L admitted allow calls of the key.
C1_WindowHoldsAtMostLimit ==
    \A u \in Users : \A s \in (0 - windowSizeSeconds)..MaxTime :
        Cardinality({i \in AdmittedIn(results[u]) :
                        /\ results[u][i].now > s
                        /\ results[u][i].now <= s + windowSizeSeconds})
            <= maxRequestsPerHour

\* C1 witness: a key was rejected and has, over time, been admitted more than
\* L times (the window has slid).
C1_Witness ==
    \E u \in Users :
        /\ Cardinality(AdmittedIn(results[u])) > maxRequestsPerHour
        /\ RejectedIn(results[u]) # {}

\* C2: a burst of allow calls on a fresh key, with non-decreasing timestamps
\* that all lie within one window, admits exactly its first L calls.
C2_BurstAdmitsFirstLimit ==
    \A u \in Users :
        (NonDecreasing(results[u]) /\ WithinOneWindow(results[u]))
            => \A i \in DOMAIN results[u] :
                   results[u][i].allowed <=> (i <= maxRequestsPerHour)

\* C2 witness: a burst longer than L, spread over more than one tick of one
\* window, whose last call was rejected.
C2_Witness ==
    \E u \in Users :
        /\ Len(results[u]) > maxRequestsPerHour
        /\ NonDecreasing(results[u])
        /\ WithinOneWindow(results[u])
        /\ results[u][1].now < results[u][Len(results[u])].now
        /\ ~results[u][Len(results[u])].allowed

\* C3: POST /allow handlers for the same key are serialized: no log ever
\* holds more than L entries, no request is admitted when no slot was left,
\* and of two requests handled one after the other at the same instant with
\* exactly one slot left, at most one is admitted.
C3_SameKeySerialized ==
    \A u \in Users :
        /\ Len(LogOf(userLogs, u)) <= maxRequestsPerHour
        /\ \A i \in DOMAIN results[u] :
               results[u][i].allowed => results[u][i].remaining >= 1
        /\ \A i \in 1..(Len(results[u]) - 1) :
               (results[u][i].remaining = 1 /\ results[u][i + 1].now = results[u][i].now)
                   => ~(results[u][i].allowed /\ results[u][i + 1].allowed)

\* C3 witness: a request was admitted into the last slot while another request
\* for the same key was in flight, and the next request for the key, handled
\* at the same instant, was rejected.
C3_Witness ==
    \E u \in Users : \E i \in 1..(Len(results[u]) - 1) :
        /\ results[u][i].raced
        /\ results[u][i].http
        /\ results[u][i].allowed
        /\ results[u][i + 1].http
        /\ results[u][i + 1].now = results[u][i].now
        /\ ~results[u][i + 1].allowed

\* C4: for any clock values, also a clock that goes back, allow(u) at `now`
\* is admitted whenever fewer than L of the timestamps recorded for u since
\* its last reset are greater than now - W: a rejected call always had at
\* least L recorded timestamps inside its window, and a stale entry
\* (t <= now - W) is never counted against the caller.
C4_StaleNeverCounted ==
    \A u \in Users : \A i \in RejectedIn(results[u]) :
        Cardinality({j \in AdmittedIn(results[u]) :
                        /\ j < i
                        /\ results[u][j].now > results[u][i].now - windowSizeSeconds})
            >= maxRequestsPerHour

\* C5: in every state and for every time `now`, getRequestCount(u) returns the
\* count that allow(u) would compare against the limit after its pruning.
C5_ReadCountIsAllowCount ==
    \A u \in Users : \A now \in Times :
        /\ getRequestCount(u, now) = Len(AllowPruned(userLogs, u, now))
        /\ AllowResult(userLogs, u, now) <=> (getRequestCount(u, now) < maxRequestsPerHour)

\* C6: after L admitted allow(u) calls all at time T (and only rejected calls
\* since), a call at a time after T + W is admitted, and a call at a time in
\* [T, T + W) is rejected.
C6_WindowSlides ==
    \A u \in Users : \A k \in DOMAIN results[u] :
        (/\ k > maxRequestsPerHour
         /\ \A i \in 1..maxRequestsPerHour :
                results[u][i].allowed /\ results[u][i].now = results[u][1].now
         /\ \A j \in (maxRequestsPerHour + 1)..(k - 1) : ~results[u][j].allowed)
            => /\ (results[u][k].now > results[u][1].now + windowSizeSeconds)
                      => results[u][k].allowed
               /\ (/\ results[u][k].now >= results[u][1].now
                   /\ results[u][k].now < results[u][1].now + windowSizeSeconds)
                      => ~results[u][k].allowed

\* C6 witness: L admits at T, a rejection strictly inside the window, then an
\* admission after the window has passed.
C6_Witness ==
    \E u \in Users :
        /\ Len(results[u]) >= maxRequestsPerHour + 2
        /\ \A i \in 1..maxRequestsPerHour :
               results[u][i].allowed /\ results[u][i].now = results[u][1].now
        /\ ~results[u][maxRequestsPerHour + 1].allowed
        /\ results[u][maxRequestsPerHour + 1].now > results[u][1].now
        /\ results[u][maxRequestsPerHour + 1].now < results[u][1].now + windowSizeSeconds
        /\ results[u][maxRequestsPerHour + 2].allowed
        /\ results[u][maxRequestsPerHour + 2].now > results[u][1].now + windowSizeSeconds

\* a call made on key a: allow, one of the reads, or resetUser
OperationOn(a) ==
    \/ \E now \in Times : Allow(a, now)
    \/ \E now \in Times : GetRequestCount(a, now)
    \/ \E now \in Times : GetRemainingRequests(a, now)
    \/ ResetUser(a)

\* C7: an operation on key a leaves every other key b as it was: the same map
\* entry, and so the same count, remaining and admit/reject outcome at every time.
C7_Independence ==
    [][\A a \in Users : OperationOn(a) =>
          \A b \in Users \ {a} :
              /\ (b \in DOMAIN userLogs') <=> (b \in DOMAIN userLogs)
              /\ LogOf(userLogs', b) = LogOf(userLogs, b)
              /\ \A now \in Times :
                    /\ RequestCountIn(userLogs', b, now) = RequestCountIn(userLogs, b, now)
                    /\ RemainingRequestsIn(userLogs', b, now)
                          = RemainingRequestsIn(userLogs, b, now)
                    /\ AllowResult(userLogs', b, now) = AllowResult(userLogs, b, now)]_vars

\* C7 witness: one key has used its whole limit and been rejected, while another
\* key, also in use, still has capacity left.
C7_Witness ==
    \E a \in Users : \E b \in Users \ {a} :
        /\ RejectedIn(results[a]) # {}
        /\ getRemainingRequests(a, clock) = 0
        /\ AdmittedIn(results[b]) # {}
        /\ getRemainingRequests(b, clock) = maxRequestsPerHour - 1
        /\ getRequestCount(b, clock) = 1

\* C8: when fewer than L entries are left after pruning, allow returns true,
\* appends exactly one entry, equal to now, at the end of the pruned log, and
\* the count observed at the same now is one more than before.
C8_AdmitBranch ==
    [][\A u \in Users : \A now \in Times :
          (/\ Allow(u, now)
           /\ Len(KeptByPrune(LogOf(userLogs, u), now - windowSizeSeconds))
                 < maxRequestsPerHour)
              => /\ results'[u][Len(results'[u])].allowed
                 /\ u \in DOMAIN userLogs'
                 /\ userLogs'[u] =
                       Append(KeptByPrune(LogOf(userLogs, u), now - windowSizeSeconds), now)
                 /\ RequestCountIn(userLogs', u, now)
                       = RequestCountIn(userLogs, u, now) + 1]_vars

\* C8 witness: the last call of a key was admitted and appended behind an
\* entry that survived a pruning which removed an older one.
C8_Witness ==
    \E u \in Users :
        /\ Len(results[u]) > 0
        /\ results[u][Len(results[u])].allowed
        /\ u \in DOMAIN userLogs
        /\ Len(userLogs[u]) >= 2
        /\ Len(userLogs[u]) < Cardinality(AdmittedIn(results[u]))
        /\ userLogs[u][Len(userLogs[u])] = results[u][Len(results[u])].now

\* C9: when at least L entries are left after pruning, allow returns false and
\* appends nothing, and the entries of the log inside the window are the same
\* before and after the call.
C9_RejectBranch ==
    [][\A u \in Users : \A now \in Times :
          (/\ Allow(u, now)
           /\ Len(KeptByPrune(LogOf(userLogs, u), now - windowSizeSeconds))
                 >= maxRequestsPerHour)
              => /\ ~results'[u][Len(results'[u])].allowed
                 /\ IsSuffix(LogOf(userLogs', u), LogOf(userLogs, u))
                 /\ FilterLog(LogOf(userLogs', u), now - windowSizeSeconds)
                       = FilterLog(LogOf(userLogs, u), now - windowSizeSeconds)
                 /\ RequestCountIn(userLogs', u, now) = RequestCountIn(userLogs, u, now)]_vars

\* C9 witness: the last call of a key was rejected, at a time later than an
\* entry that is still in its full log.
C9_Witness ==
    \E u \in Users :
        /\ Len(results[u]) > 0
        /\ ~results[u][Len(results[u])].allowed
        /\ Len(LogOf(userLogs, u)) = maxRequestsPerHour
        /\ \E k \in DOMAIN userLogs[u] : userLogs[u][k] < results[u][Len(results[u])].now

\* C10: getRemainingRequests is between 0 and L at every time; and after N
\* admitted calls in a fresh window (non-decreasing call times, read at a time
\* not before the last call and with the first call still in the window) it
\* is max(0, L - N).
C10_RemainingMonotone ==
    \A u \in Users :
        /\ \A now \in Times :
               /\ getRemainingRequests(u, now) >= 0
               /\ getRemainingRequests(u, now) <= maxRequestsPerHour
        /\ NonDecreasing(results[u]) =>
               \A now \in Times :
                   (Len(results[u]) > 0 =>
                       /\ now >= results[u][Len(results[u])].now
                       /\ results[u][1].now > now - windowSizeSeconds)
                       => getRemainingRequests(u, now)
                             = Max(0, maxRequestsPerHour - Cardinality(AdmittedIn(results[u])))

\* C10 witness: in one window, one key has been admitted once and has L - 1
\* left, and another has been admitted L times, was then rejected, and has 0 left.
C10_Witness ==
    \E a \in Users : \E b \in Users \ {a} :
        /\ NonDecreasing(results[a]) /\ NonDecreasing(results[b])
        /\ Cardinality(AdmittedIn(results[a])) = 1
        /\ results[a][1].now > clock - windowSizeSeconds
        /\ clock >= results[a][Len(results[a])].now
        /\ getRemainingRequests(a, clock) = maxRequestsPerHour - 1
        /\ RejectedIn(results[b]) # {}
        /\ results[b][1].now > clock - windowSizeSeconds
        /\ clock >= results[b][Len(results[b])].now
        /\ getRemainingRequests(b, clock) = 0

\* a step of one of the read operations: getRequestCount, getRemainingRequests,
\* getStats, or GET /stats/:userId
ReadStep ==
    \E userId \in Users, now2 \in Times :
        \/ GetRequestCount(userId, now2)
        \/ GetRemainingRequests(userId, now2)
        \/ \E now1 \in Times : GetStats(userId, now1, now2)
        \/ \E now1 \in Times : GetStatsHandler(userId, now1, now2)

\* C11: a read (getRequestCount, getRemainingRequests, getStats, GET /stats)
\* changes for no key and for no time what the next allow returns
C11_ReadsKeepNextAllow ==
    [][ReadStep =>
          \A userId \in Users, now \in Times :
              AllowResult(userLogs', userId, now) = AllowResult(userLogs, userId, now)]_vars

\* allow, then GET /stats answering one request counted, then the next allow
\* of the key, all within one window: the second allow found the budget the
\* first had left
C11_Witness ==
    \E userId \in Users :
        /\ response.status = 200 /\ "stats" \in DOMAIN response
        /\ response.userId = userId
        /\ response.stats.currentCount = 1
        /\ Len(results[userId]) = 2
        /\ results[userId][1].allowed
        /\ results[userId][1].remaining = maxRequestsPerHour
        /\ results[userId][2].allowed
        /\ results[userId][2].remaining = maxRequestsPerHour - 1
        /\ clock - results[userId][1].now < windowSizeSeconds

\* the answer of DELETE /reset/:userId for this key is the last answer sent, so
\* resetUser(userId) ran and no allow of the key was answered since
JustReset(userId) == response = [status |-> 200, userId |-> userId]

\* C12: after resetUser(u) the count of u is 0 and its remaining budget is the
\* full limit at every time, and the state of u is that of a key never seen,
\* so the next allow is admitted and leaves a log of one timestamp
C12_ResetIsFresh ==
    \A userId \in Users :
        JustReset(userId) =>
            /\ LogOf(userLogs, userId) = LogOf(NoLogs, userId)
            /\ \A now \in Times :
                  /\ getRequestCount(userId, now) = 0
                  /\ getRemainingRequests(userId, now) = maxRequestsPerHour
                  /\ AllowResult(userLogs, userId, now)
                       = AllowResult(NoLogs, userId, now)
                  /\ AllowLog(userLogs, userId, now) = AllowLog(NoLogs, userId, now)

\* a key was just reset while another key holds requests and a request for the
\* reset key is waiting to be handled
C12_Witness ==
    \E userId \in Users, other \in Users :
        /\ JustReset(userId)
        /\ other # userId
        /\ Len(LogOf(userLogs, other)) > 0
        /\ inflight[[type |-> "string", userId |-> userId]] > 0

\* C13: the log of every key is sorted in non-decreasing timestamp order
C13_LogSorted ==
    \A userId \in DOMAIN userLogs :
        \A i \in 1..(Len(userLogs[userId]) - 1) :
            userLogs[userId][i] <= userLogs[userId][i + 1]

\* C14: the log of every key holds at most maxRequestsPerHour timestamps, and
\* getRequestCount returns at most the limit at every time
C14_LogBounded ==
    \A userId \in Users :
        /\ Len(LogOf(userLogs, userId)) <= maxRequestsPerHour
        /\ \A now \in Times : getRequestCount(userId, now) <= maxRequestsPerHour

\* a key whose log is full, counted in full now, after a call that was rejected
C14_Witness ==
    \E userId \in Users :
        /\ Len(LogOf(userLogs, userId)) = maxRequestsPerHour
        /\ getRequestCount(userId, clock) = maxRequestsPerHour
        /\ RejectedIn(results[userId]) # {}

\* C15: right after allow(u) called at time now, the log of u holds no
\* timestamp t with t <= now - W (the log of u changes only in allow and in a
\* reset, so it is still the log the last recorded call left)
C15_NoStaleAfterAllow ==
    \A userId \in Users :
        results[userId] # << >> =>
            LET now == results[userId][Len(results[userId])].now
                log == LogOf(userLogs, userId)
            IN \A i \in DOMAIN log : log[i] > now - windowSizeSeconds

\* C16: whatever ran before and however the clock advances between the two
\* readings of a getStats call, the call returns remaining = max(0, limit -
\* currentCount), with the limit and the window given to the constructor
C16_StatsSelfConsistent ==
    \A userId \in Users, now1 \in LaterTime(clock) :
        \A now2 \in LaterTime(now1) :
            LET stats == StatsIn(userLogs, userId, now1, now2)
            IN /\ stats.remaining = Max(0, stats.limit - stats.currentCount)
               /\ stats.limit = MaxRequests
               /\ stats.windowSizeSeconds = WindowSize

\* the last answer sent is the answer of POST /allow to a decided request of
\* this key, so it answers the last recorded call of the key
AllowAnswered(userId) ==
    /\ response.status \in {200, 429}
    /\ "allowed" \in DOMAIN response
    /\ response.userId = userId

\* C17: for a key fresh since its last reset whose calls all fall in one
\* window, the answer to its i-th admitted POST /allow reports allowed = true,
\* currentCount = i and remaining = L - i
C17_AdmitCounters ==
    \A userId \in Users :
        (/\ AllowAnswered(userId)
         /\ results[userId][Len(results[userId])].allowed
         /\ WithinOneWindow(results[userId]))
        => /\ response.allowed
           /\ response.currentCount = Cardinality(AdmittedIn(results[userId]))
           /\ response.remaining
                = maxRequestsPerHour - Cardinality(AdmittedIn(results[userId]))

\* C18: every answer of POST /allow with allowed = false reports remaining = 0
\* and currentCount = limit
C18_RejectCounters ==
    \A userId \in Users :
        (AllowAnswered(userId) /\ ~response.allowed)
        => /\ response.remaining = 0
           /\ response.currentCount = response.limit
           /\ response.limit = maxRequestsPerHour

\* C19: a POST /allow whose userId is missing, empty or not a string is
\* answered 400, or 500 when the handler raises an exception, and the step
\* that handles it creates and modifies no log
C19_InvalidNeverTouchesStore ==
    [][\A body \in InvalidBodies, fault \in Faults :
          PostAllowHandler(body, clock, clock, clock, fault)
          => /\ userLogs' = userLogs
             /\ fault = "none" => response' = ValidationResponse
             /\ response'.status \in {400, 500}]_vars

\* a validation error was answered while a key holds recorded requests
C19_Witness ==
    /\ response = ValidationResponse
    /\ \E userId \in Users : Len(LogOf(userLogs, userId)) > 0

\* the step is the POST /allow handler handling this body with this fault, at
\* some clock readings; when allow was called, its reading is the one the
\* recorded call shows and the last reading is the new clock
HandledWith(body, fault) ==
    /\ inflight'[body] < inflight[body]
    /\ IF InvalidUserId(body) \/ fault = "before"
       THEN PostAllowHandler(body, clock, clock, clock, fault)
       ELSE /\ Len(results'[body.userId]) > Len(results[body.userId])
            /\ LET now == results'[body.userId][Len(results'[body.userId])].now
               IN /\ now \in LaterTime(clock)
                  /\ (fault = "after") <=> (response' = ErrorResponse)
                  /\ IF fault = "after"
                     THEN PostAllowHandler(body, now, now, clock', fault)
                     ELSE \E now1 \in now..clock' :
                            PostAllowHandler(body, now, now1, clock', fault)

\* C20: a POST /allow that raises no exception is answered 200 with
\* allowed = true when allow(userId) returned true and 429 with allowed = false
\* when it returned false; one that raises an exception is answered 500, with
\* no admission in the answer
C20_TransportMapping ==
    [][\A body \in {b \in Bodies : inflight'[b] < inflight[b]}, fault \in Faults :
          HandledWith(body, fault)
          => IF fault # "none"
             THEN response'.status = 500 /\ "allowed" \notin DOMAIN response'
             ELSE ~InvalidUserId(body)
                  => LET calls == results'[body.userId]
                         returned == calls[Len(calls)].allowed
                     IN /\ Len(calls) = Len(results[body.userId]) + 1
                        /\ response'.allowed = returned
                        /\ response'.status = 200 <=> returned
                        /\ response'.status = 429 <=> ~returned]_vars

\* the last answer is a 429 with allowed = false for a key whose last recorded
\* call allow rejected
C20_Witness ==
    \E userId \in Users :
        /\ AllowAnswered(userId)
        /\ response.status = 429 /\ ~response.allowed
        /\ ~results[userId][Len(results[userId])].allowed

\* the timestamps of a key's in-process log that are inside the window at now
LiveLocal(key, now) ==
    {i \in DOMAIN LogOf(userLogs, key) : LogOf(userLogs, key)[i] > now - windowSizeSeconds}

\* the members of a key's sorted set that are inside the window at now
LiveShared(key, now) == {m \in ZSetOf(redis, key) : m.score > now - windowSizeSeconds}

\* C23: on the same sequence of (key, now) requests, with the same limit and
\* window, the in-process allow and the shared-store script return the same
\* decision, and they hold the same live entries: as many, with the same times
C23_SharedStoreEquivalent ==
    "local" \in DOMAIN decision =>
        /\ decision.local = decision.allowed
        /\ \A key \in Users :
              /\ Cardinality(LiveLocal(key, clock)) = Cardinality(LiveShared(key, clock))
              /\ {LogOf(userLogs, key)[i] : i \in LiveLocal(key, clock)}
                   = {m.score : m \in LiveShared(key, clock)}


\* C21: when the multi-scope allow rejects a request, the request has left an
\* entry in no scope, the scopes evaluated before the rejecting one included.
C21_RejectConsumesNothing ==
    ("added" \in DOMAIN decision /\ ~decision.allowed) => decision.added = {}

\* the scopes of the rule by name
ScopeNames == {Scopes[i].name : i \in DOMAIN Scopes}

\* the scope at position i rejects the request in flight on the store as it is
ScopeRejects(i) ==
    ~TryAddResult(redis, ComposeKey(Scopes[i], pending.userId), pending.now,
                  Scopes[i].limit, Scopes[i].windowMs)

\* C22: the scopes are evaluated in their fixed order; the request is rejected
\* iff some scope rejects, the decision names the first scope that rejects and
\* the logs of the scopes after it are as the request found them; when every
\* scope admits, the request has added one entry to the log of every scope.
C22_ShortCircuit ==
    [][pending.pc = "scopes" =>
         LET idx == pending.idx
             userId == pending.userId
         IN IF ScopeRejects(idx)
            THEN /\ pending' = Idle
                 /\ ~decision'.allowed
                 /\ decision'.scopeHit = Scopes[idx].name
                 /\ \A j \in (idx + 1)..Len(Scopes) :
                        ZSetOf(redis', ComposeKey(Scopes[j], userId))
                          = ZSetOf(pending.before, ComposeKey(Scopes[j], userId))
            ELSE IF idx < Len(Scopes)
            THEN /\ pending'.pc = "scopes"
                 /\ pending'.idx = idx + 1
                 /\ decision' = decision
            ELSE /\ pending' = Idle
                 /\ decision'.allowed
                 /\ decision'.added = ScopeNames
                 /\ \A j \in DOMAIN Scopes :
                        ZCard(ZSetOf(redis', ComposeKey(Scopes[j], userId)))
                          = ZCard(LuaPruned(pending.before, ComposeKey(Scopes[j], userId),
                                            pending.now - Scopes[j].windowMs)) + 1
    ]_vars

\* C24: a call of allowWithRetry makes at most two attempts on the shared
\* store, the first and one retry, before it answers or applies the fallback
\* policy.
C24_AtMostTwoAttempts ==
    "attempts" \in DOMAIN decision => decision.attempts <= 2

\* the reasons a rejection for an exceeded limit can carry: that of
\* decisionBlocked, and none at all for the bare answer of tryAdd
LimitReasons == {"NONE"} \cup {DecisionBlocked(Scopes[i], {}).reason : i \in DOMAIN Scopes}

\* C25: a decision made by the failure path, after the last attempt on the
\* store has failed, never allows a caller that is not INTERNAL, and carries a
\* reason that no rejection for an exceeded limit carries.
C25_FailClosedDistinct ==
    ("via" \in DOMAIN decision /\ decision.via = "handleFailure") =>
        /\ decision.clientType # "INTERNAL" => ~decision.allowed
        /\ decision.reason \notin LimitReasons

\* the store failed on every attempt of an external caller's request, which
\* was answered by the failure path and counted as a store error
C25_Witness ==
    /\ "via" \in DOMAIN decision
    /\ decision.via = "handleFailure"
    /\ decision.clientType = "EXTERNAL"
    /\ decision.attempts = maxRetries + 1
    /\ ~decision.allowed
    /\ decision.reason = "RATE_LIMITER_UNHEALTHY"
    /\ metrics = 1

\* C26: once allow(u) has been called, the map holds an entry for u, and the
\* entry stays there through every later call, whatever pruning does to its
\* log, until resetUser(u) or resetAll.
C26_KeysPersist ==
    \A u \in Users : results[u] # << >> => u \in DOMAIN userLogs

\* a key that was seen, has not been reset, and whose log holds nothing live at
\* the time of the last call
C26_Witness ==
    \E u \in Users :
        /\ results[u] # << >>
        /\ u \in DOMAIN userLogs
        /\ LogOf(userLogs, u) # << >>
        /\ getRequestCount(u, clock) = 0

\* the key is in the map and none of its timestamps is live at the clock
IdleKey(u) == u \in DOMAIN userLogs /\ getRequestCount(u, clock) = 0

\* C27: a key whose log holds nothing live does not stay in the map for ever:
\* its entry is eventually removed, unless the key is used again.
C27_IdleKeyEvicted ==
    \A u \in Users : [](IdleKey(u) => <>(~IdleKey(u)))

\* C28: after resetAll every key has count 0 and the full limit remaining at
\* every time, is not in the map, and the next allow on it does what it does
\* on a limiter that has seen no call.
C28_ResetAllIsFresh ==
    clearedAll.done =>
        \A u \in Users, t \in Times :
            /\ getRequestCount(u, t) = 0
            /\ getRemainingRequests(u, t) = maxRequestsPerHour
            /\ u \notin DOMAIN userLogs
            /\ AllowResult(userLogs, u, t)
            /\ AllowLogs(userLogs, u, t) = AllowLogs(NoLogs, u, t)

\* resetAll was called on a map that held every key
C28_Witness == clearedAll.done /\ clearedAll.keys = Users

\* the last allow on the key, since its last reset, was rejected
LastRejected(u) == results[u] # << >> /\ ~results[u][Len(results[u])].allowed

\* C29: under a clock that never goes back, when the last allow on a key was
\* rejected and the oldest timestamp of its log is t0, the next allow on the
\* key, at any later time t, is admitted iff t >= t0 + W.
C29_EarliestReadmission ==
    \A u \in Users :
        LastRejected(u) =>
            /\ LogOf(userLogs, u) # << >>
            /\ \A t \in LaterTime(clock) :
                  AllowResult(userLogs, u, t)
                    <=> t >= Head(LogOf(userLogs, u)) + windowSizeSeconds

\* a key was rejected, and was admitted again by the call made when the clock
\* reached the oldest timestamp plus the window
C29_Witness ==
    \E u \in Users :
        \E k \in 1..(Len(results[u]) - 1) :
            /\ ~results[u][k].allowed
            /\ results[u][k + 1].allowed
            /\ results[u][k + 1].now = results[u][1].now + windowSizeSeconds
            /\ results[u][k].now < results[u][k + 1].now

\* what the prune loop of allow(u) at time now takes off the log
RemovedByPrune(u, now) ==
    SubSeq(LogOf(userLogs, u), 1,
           Len(LogOf(userLogs, u)) - Len(AllowPruned(userLogs, u, now)))

\* C30: for every clock reading, one that goes back included, the prune loop
\* of allow removes only timestamps t <= now - W, takes them from the front,
\* and leaves the other entries in their order; the call then adds at most
\* its own timestamp at the end.
C30_PruneKeepsLive ==
    \A u \in Users, now \in Times :
        /\ IsSuffix(AllowPruned(userLogs, u, now), LogOf(userLogs, u))
        /\ \A k \in DOMAIN RemovedByPrune(u, now) :
              RemovedByPrune(u, now)[k] <= now - windowSizeSeconds
        /\ AllowLog(userLogs, u, now) \in
              {AllowPruned(userLogs, u, now), Append(AllowPruned(userLogs, u, now), now)}

\* a call whose prune loop took the oldest timestamp, stale by then, off the
\* front of the log and kept the live one behind it
C30_Witness ==
    \E u \in Users :
        LET log == LogOf(userLogs, u)
            calls == results[u]
        IN /\ Len(calls) = 3
           /\ \A k \in DOMAIN calls : calls[k].allowed
           /\ calls[1].now <= calls[3].now - windowSizeSeconds
           /\ calls[2].now > calls[3].now - windowSizeSeconds
           /\ log = <<calls[2].now, calls[3].now>>

\* the number of entries that the prune loops of the calls r have removed
RECURSIVE PrunedIn(_)
PrunedIn(r) == IF r = << >> THEN 0 ELSE Head(r).pruned + PrunedIn(Tail(r))

\* C31: the prune loop of allow ends after at most as many turns as the log
\* is long; every timestamp recorded since the key's last reset is either in
\* the log or was removed by one prune, once; so the entries removed by
\* pruning are never more than the requests admitted.
C31_PruneCost ==
    \A u \in Users :
        /\ \A k \in DOMAIN results[u] :
              0 <= results[u][k].pruned /\ results[u][k].pruned <= maxRequestsPerHour
        /\ PrunedIn(results[u]) + Len(LogOf(userLogs, u))
              = Cardinality(AdmittedIn(results[u]))
        /\ PrunedIn(results[u]) <= Cardinality(AdmittedIn(results[u]))

\* one call whose prune loop removed two entries, after which entries of the
\* key are in the log again
C31_Witness ==
    \E u \in Users :
        /\ \E k \in DOMAIN results[u] : results[u][k].pruned = 2
        /\ Len(LogOf(userLogs, u)) >= 2

\* the log that the allow calls r, and nothing else, leave for the key u
RECURSIVE ReplayLog(_, _)
ReplayLog(u, r) ==
    IF r = << >> THEN << >>
    ELSE AllowLog(SetLog(NoLogs, u, ReplayLog(u, SubSeq(r, 1, Len(r) - 1))),
                  u, r[Len(r)].now)

\* C32: the reads (getRequestCount, getRemainingRequests, getStats and
\* GET /stats) write nothing: the map holds exactly the keys that allow has
\* been called on since their last reset, and the log of each is what its
\* allow calls alone have made it, however many reads came between them.
C32_ReadsLeaveStore ==
    \A u \in Users :
        /\ u \in DOMAIN userLogs <=> results[u] # << >>
        /\ LogOf(userLogs, u) = ReplayLog(u, results[u])

\* GET /stats was answered for a key that allow has not been called on: the
\* key is not in the map, and the log of the other key holds the timestamps
\* of its two calls
C32_Witness ==
    \E u \in Users, v \in Users :
        /\ response.status = 200 /\ "stats" \in DOMAIN response
        /\ response.userId = u
        /\ response.stats.currentCount = 0
        /\ results[u] = << >>
        /\ u \notin DOMAIN userLogs
        /\ Len(results[v]) = 2
        /\ results[v][1].now < results[v][2].now
        /\ LogOf(userLogs, v) = <<results[v][1].now, results[v][2].now>>

\* C33: resetUser(u) removes the entry of u and nothing else: the other keys
\* stay in the map with their logs, a reset of a key that is not in the map
\* changes nothing, and a second reset changes nothing more; after
\* DELETE /reset/u has answered, every other key holds the log that its own
\* allow calls have made.
C33_ResetUserOnly ==
    \A u \in Users :
        /\ u \notin DOMAIN DeleteLog(userLogs, u)
        /\ \A v \in Users \ {u} :
              /\ v \in DOMAIN DeleteLog(userLogs, u) <=> v \in DOMAIN userLogs
              /\ LogOf(DeleteLog(userLogs, u), v) = LogOf(userLogs, v)
        /\ u \notin DOMAIN userLogs => DeleteLog(userLogs, u) = userLogs
        /\ DeleteLog(DeleteLog(userLogs, u), u) = DeleteLog(userLogs, u)
        /\ JustReset(u) =>
              /\ u \notin DOMAIN userLogs
              /\ \A v \in Users \ {u} :
                    /\ v \in DOMAIN userLogs <=> results[v] # << >>
                    /\ LogOf(userLogs, v) = ReplayLog(v, results[v])

\* DELETE /reset/u has answered while the other key holds two timestamps
C33_Witness ==
    \E u \in Users, v \in Users :
        /\ u # v
        /\ JustReset(u)
        /\ Len(results[v]) = 2
        /\ Len(LogOf(userLogs, v)) = 2

\* C34: a RateLimiter constructed with maxRequestsPerHour <= 0 admits no
\* request of any key at any time, and getRemainingRequests is 0 for every
\* key at every time.
C34_NonPositiveAdmitsNothing ==
    maxRequestsPerHour <= 0 =>
        \A u \in Users :
            /\ \A k \in DOMAIN results[u] :
                  ~results[u][k].allowed /\ results[u][k].remaining = 0
            /\ LogOf(userLogs, u) = << >>
            /\ \A t \in Times :
                  ~AllowResult(userLogs, u, t) /\ getRemainingRequests(u, t) = 0

\* a limiter with a negative limit has rejected two calls on a key, which is
\* in the map with an empty log
C34_Witness ==
    \E u \in Users :
        /\ maxRequestsPerHour < 0
        /\ Len(results[u]) = 2
        /\ ~results[u][1].allowed
        /\ ~results[u][2].allowed
        /\ u \in DOMAIN userLogs

\* C35: only the first call of loadConfig reads the file, whether it could be
\* read or not; every later call, of loadConfig or of getRateLimitConfig,
\* returns what the first returned, and that is what ConfigLoader.config
\* holds, whatever the file has become.
C35_LoadsOnce ==
    \A k \in DOMAIN loads :
        /\ loads[k].read <=> k = 1
        /\ loads[k].returned = loads[1].returned
        /\ config = loads[1].returned

\* the first call found no readable file; the file is now readable and sets
\* the limit to 2; a second call has returned what the first did
C35_Witness ==
    /\ Len(loads) >= 2
    /\ ~loads[1].file.readable
    /\ file.readable
    /\ ReadConfig(file).requestsPerHour = Num(2)
    /\ loads[Len(loads)].returned.requestsPerHour = Num(DefaultRequestsPerHour)

\* some line of the file that is not a comment has the key before its '='
Mentions(f, key) ==
    \E i \in DOMAIN f.lines : ~f.lines[i].comment /\ f.lines[i].key = key

\* C36: a call of loadConfig that reads the file always answers with a
\* configuration: the defaults 100 and 3600 when the file cannot be read, and
\* the default of each key that no line of a readable file sets.
C36_FallsBackToDefaults ==
    \A k \in DOMAIN loads :
        loads[k].read =>
            LET f == loads[k].file
                r == loads[k].returned
            IN /\ r.loaded
               /\ ~f.readable =>
                     /\ r.requestsPerHour = Num(DefaultRequestsPerHour)
                     /\ r.windowSeconds = Num(DefaultWindowSeconds)
               /\ (f.readable /\ ~Mentions(f, RequestsKey)) =>
                     r.requestsPerHour = Num(DefaultRequestsPerHour)
               /\ (f.readable /\ ~Mentions(f, WindowKey)) =>
                     r.windowSeconds = Num(DefaultWindowSeconds)

\* loadConfig read a file that sets the window and not the limit, and
\* returned the default limit with the window of the file
C36_Witness ==
    /\ loads # << >>
    /\ loads[1].read
    /\ loads[1].file.readable
    /\ ~Mentions(loads[1].file, RequestsKey)
    /\ Mentions(loads[1].file, WindowKey)
    /\ loads[1].returned.requestsPerHour = Num(DefaultRequestsPerHour)
    /\ loads[1].returned.windowSeconds = Num(3)

====
